---- MODULE Spec2Model ----
(***************************************************************************)
(* Model of daily_data_udf.py: the whitelist built by load_config, the     *)
(* lru_cache-wrapped _execute_query, log_udf_call and the four Excel       *)
(* lookups get_daily_data, get_series, get_daily_matrix and get_all_mcap.  *)
(*                                                                         *)
(* Python values are records tagged with their type, so that isinstance    *)
(* checks, int() conversion and hashing are modelled by what they do.      *)
(* SQL texts are token sequences, so that two texts are the same cache key *)
(* exactly when they are the same text and the identifiers of a text can   *)
(* be read back from it.                                                   *)
(***************************************************************************)
EXTENDS Integers, Sequences, FiniteSets, TLC

VARIABLES
    CONFIG,        \* module global CONFIG (the sections the lookups read)
    VALID_FIELDS,  \* module global VALID_FIELDS, set by load_config
    LOGGER,        \* module global LOGGER, set by setup_logging
    schema,        \* the store: declared columns of the table ({} = no table)
    store,         \* the store: rows of the table in rowid order
    dbFault,       \* the store: TRUE while connecting/executing fails
    cache,         \* the lru_cache of _execute_query, least recently used first
    calls,         \* number of calls made so far (logical clock)
    last,          \* observation of the most recent call
    lastUse,       \* history: key -> clock value of its most recent use
    returned,      \* history: key -> rows its most recent successful call returned
    threads,       \* concurrent lookups: thread -> position and locals
    conns,         \* the store: connections open now
    cacheLock,     \* thread inside the lru_cache bookkeeping (0 = none)
    sinkLock,      \* thread inside the log handler (0 = none)
    produced       \* history: (key, rows) results the store has answered

\* the state the concurrent lookups add
threadVars == <<threads, conns, cacheLock, sinkLock, produced>>

vars == <<CONFIG, VALID_FIELDS, LOGGER, schema, store, dbFault, cache, calls,
          last, lastUse, returned, threads, conns, cacheLock, sinkLock,
          produced>>

----------------------------------------------------------------------------
(* Bounds of the model *)

\* calls explored per behaviour
MaxCalls == 2

----------------------------------------------------------------------------
(* Python values *)

PyInt(n) == [t |-> "int", v |-> n]
\* a finite float, held in tenths: PyFloat(15) is 1.5
PyFloat(tenths) == [t |-> "float", v |-> tenths]
\* float('nan'): an instance of float that int() cannot convert
PyNaN == [t |-> "nan", v |-> 0]
PyStr(s) == [t |-> "str", s |-> s]
PyNone == [t |-> "none", v |-> 0]
\* a list: neither str nor number, and unhashable
PyList == [t |-> "list", v |-> 0]
PyTrue == [t |-> "bool", v |-> 1]

\* isinstance(x, (int, float))
IsNumber(x) == x.t \in {"int", "float", "nan"}
\* isinstance(x, str)
IsStr(x) == x.t = "str"

\* int(x) raises ValueError on nan
IntRaises(x) == x.t = "nan"
\* int(x) for an int or a finite float: truncation toward zero
ToInt(x) ==
    IF x.t = "int" THEN x.v
    ELSE IF x.v >= 0 THEN x.v \div 10 ELSE -((-x.v) \div 10)

\* hash(params) raises TypeError when an element is unhashable
Hashable(params) == \A i \in 1..Len(params) : params[i].t # "list"

----------------------------------------------------------------------------
(* SQL texts, as the f-strings of the lookups build them *)

\* get_daily_data: SELECT {field} FROM {table} WHERE accord_code = ? AND date = ?
SqlPoint(field, table) ==
    <<"SELECT", field, "FROM", table,
      "WHERE", "accord_code", "=", "?", "AND", "date", "=", "?">>

\* get_series: SELECT date, {field} FROM {table}
\*             WHERE accord_code = ? AND date BETWEEN ? AND ? ORDER BY date
SqlSeries(field, table) ==
    <<"SELECT", "date", ",", field, "FROM", table,
      "WHERE", "accord_code", "=", "?", "AND", "date", "BETWEEN", "?", "AND", "?",
      "ORDER", "BY", "date">>

\* get_daily_matrix: SELECT accord_code, company_name, sector, mcap_category,
\*                   {field} FROM {table} WHERE date = ?
SqlMatrix(field, table) ==
    <<"SELECT", "accord_code", ",", "company_name", ",", "sector", ",",
      "mcap_category", ",", field, "FROM", table,
      "WHERE", "date", "=", "?">>

\* get_all_mcap: SELECT date, {field} FROM {table} WHERE accord_code = ?
\*               ORDER BY date
SqlAll(field, table) ==
    <<"SELECT", "date", ",", field, "FROM", table,
      "WHERE", "accord_code", "=", "?", "ORDER", "BY", "date">>

SqlWords == {"SELECT", "FROM", "WHERE", "AND", "BETWEEN", "ORDER", "BY",
             ",", "=", "?"}

\* position of the first occurrence of tok in sql (0 when absent)
IndexOf(sql, tok) ==
    IF \E i \in 1..Len(sql) : sql[i] = tok
    THEN CHOOSE i \in 1..Len(sql) :
            sql[i] = tok /\ \A j \in 1..(i - 1) : sql[j] # tok
    ELSE 0

\* the table a text reads
SqlTable(sql) == sql[IndexOf(sql, "FROM") + 1]

\* the column identifiers a text holds: projection, filter and ordering
SqlColumns(sql) ==
    {sql[i] : i \in {j \in 1..Len(sql) :
                        sql[j] \notin SqlWords /\ j # IndexOf(sql, "FROM") + 1}}

\* the projection of a text, in order
SqlSelectList(sql) ==
    LET from == IndexOf(sql, "FROM")
        idx  == {j \in 2..(from - 1) : sql[j] # ","}
        F[k \in 0..Len(sql)] ==
            IF k = 0 THEN <<>>
            ELSE IF k \in idx THEN Append(F[k - 1], sql[k]) ELSE F[k - 1]
    IN  F[from - 1]

\* the filter of a text: the tokens between WHERE and ORDER BY
SqlWhere(sql) ==
    LET w == IndexOf(sql, "WHERE")
        o == IndexOf(sql, "ORDER")
    IN  SubSeq(sql, w + 1, IF o = 0 THEN Len(sql) ELSE o - 1)

----------------------------------------------------------------------------
(* The store: one SQLite table *)

\* name of the table the store holds
StoreTable == "mcap"

\* date strings in use, in the order string comparison gives them
DateStrings == <<"2024-01-02", "2024-01-03">>
StrOrd(s) == CHOOSE i \in 1..Len(DateStrings) : DateStrings[i] = s

FullColumns ==
    {"accord_code", "company_name", "sector", "mcap_category", "date", "mcap"}
\* a table that declares only some of the columns the lookups name
NarrowColumns == {"accord_code", "date", "mcap"}

Row(code, name, date, value) ==
    [accord_code |-> PyInt(code), company_name |-> PyStr(name),
     sector |-> PyStr("Tech"), mcap_category |-> PyStr("Large"),
     date |-> PyStr(date), mcap |-> PyInt(value)]

\* the rows the table comes to hold, in the order they are appended: the
\* later date of entity 1 first, then another entity, then its earlier date
RowFeed ==
    <<Row(1, "Acme", "2024-01-03", 20), Row(2, "Bolt", "2024-01-02", 30),
      Row(1, "Acme", "2024-01-02", 10)>>

\* column = ? with a bound value: NULL (None) equals nothing
SqlEq(colval, p) == p.t # "none" /\ colval = p

\* column BETWEEN ? AND ? on a text column: NULL bounds match nothing
SqlBetween(colval, lo, hi) ==
    /\ IsStr(lo) /\ IsStr(hi)
    /\ StrOrd(lo.s) <= StrOrd(colval.s)
    /\ StrOrd(colval.s) <= StrOrd(hi.s)

\* whether a row passes the filter of sql under the positional params
RowMatches(row, where, params) ==
    IF where = <<"accord_code", "=", "?", "AND", "date", "=", "?">>
    THEN SqlEq(row.accord_code, params[1]) /\ SqlEq(row.date, params[2])
    ELSE IF where = <<"accord_code", "=", "?", "AND",
                      "date", "BETWEEN", "?", "AND", "?">>
    THEN SqlEq(row.accord_code, params[1])
         /\ SqlBetween(row.date, params[2], params[3])
    ELSE IF where = <<"date", "=", "?">>
    THEN SqlEq(row.date, params[1])
    ELSE IF where = <<"accord_code", "=", "?">>
    THEN SqlEq(row.accord_code, params[1])
    ELSE FALSE

\* the rows of a sequence that pass a test, in order
RECURSIVE FilterRows(_, _, _)
FilterRows(rows, where, params) ==
    IF rows = <<>> THEN <<>>
    ELSE LET rest == FilterRows(Tail(rows), where, params)
         IN  IF RowMatches(Head(rows), where, params)
             THEN <<Head(rows)>> \o rest ELSE rest

\* ORDER BY date: insertion into a date-sorted sequence
RECURSIVE InsertByDate(_, _)
InsertByDate(row, sorted) ==
    IF sorted = <<>> THEN <<row>>
    ELSE IF StrOrd(row.date.s) < StrOrd(Head(sorted).date.s)
    THEN <<row>> \o sorted
    ELSE <<Head(sorted)>> \o InsertByDate(row, Tail(sorted))

\* the rows left in the order the table holds them
OrderByDateNone(rows) == rows

RECURSIVE OrderByDate(_)
OrderByDate(rows) ==
    IF rows = <<>> THEN <<>>
    ELSE InsertByDate(Head(rows), OrderByDate(Tail(rows)))

\* tuple(r): the projected columns of one row
Project(row, cols) == [i \in 1..Len(cols) |-> row[cols[i]]]

\* sqlite3 raises OperationalError: no such table / no such column
SqlInvalid(sql, cols) ==
    \/ cols = {}
    \/ SqlTable(sql) # StoreTable
    \/ ~(SqlColumns(sql) \subseteq cols)

\* cursor.execute(sql, params); cursor.fetchall(), as a tuple of tuples
FetchAll(sql, params, rows) ==
    LET hit == FilterRows(rows, SqlWhere(sql), params)
        ord == IF IndexOf(sql, "ORDER") = 0 THEN hit ELSE OrderByDate(hit)
    IN  [i \in 1..Len(ord) |-> Project(ord[i], SqlSelectList(sql))]

----------------------------------------------------------------------------
(* Startup: load_config and setup_logging *)

DefaultFields ==
    {"accord_code", "company_name", "sector", "mcap_category", "date", "mcap"}

\* config.ini absent: the defaults of load_config
DefaultConfig ==
    [DATABASE |-> [DB_PATH |-> "mcap.db", TABLE_NAME |-> "mcap"],
     LOGGING  |-> [LOG_FILE |-> "query_log.txt"]]

\* load_config keeping whatever the table declares, an empty set included
LoadConfigNoFallback(db, cols) ==
    IF db = "ok" THEN cols ELSE DefaultFields

\* VALID_FIELDS as load_config leaves it.  db is the store at startup:
\* "ok" (file exists, PRAGMA table_info answers cols), "missing" (no file)
\* or "error" (the introspection raises)
load_config(db, cols) ==
    IF db = "ok"
    THEN IF cols = {} THEN DefaultFields ELSE cols
    ELSE DefaultFields

\* LOGGER as setup_logging leaves it
setup_logging(handlerOk) ==
    IF handlerOk THEN "QueryLogger" ELSE "FallbackLogger"

----------------------------------------------------------------------------
(* _execute_query and its lru_cache *)

\* @functools.lru_cache(maxsize=128)
maxsize == 128

NoRows == <<>>

CacheKey(sql, params) == [sql |-> sql, params |-> params]
CacheKeys(c) == {c[i].key : i \in 1..Len(c)}
CacheIndex(c, k) == CHOOSE i \in 1..Len(c) : c[i].key = k
CacheRows(c, k) == c[CacheIndex(c, k)].rows

\* a hit that leaves the order of use as it was
CacheTouchNone(c, k) == c

\* a hit: the entry becomes the most recently used
CacheTouch(c, k) ==
    LET i == CacheIndex(c, k)
    IN  SubSeq(c, 1, i - 1) \o SubSeq(c, i + 1, Len(c)) \o <<c[i]>>

\* a store that keeps a result only when it has rows
CacheInsertNonEmpty(c, k, rows) ==
    LET e == [key |-> k, rows |-> rows]
    IN  IF rows = NoRows THEN c
        ELSE IF Len(c) >= maxsize THEN Append(Tail(c), e) ELSE Append(c, e)

\* a miss that returned: the result is stored as the most recently used entry,
\* in place of the least recently used one when the cache is full
CacheInsert(c, k, rows) ==
    LET e == [key |-> k, rows |-> rows]
    IN  IF Len(c) >= maxsize THEN Append(Tail(c), e) ELSE Append(c, e)

\* the wrapped function (lines 96-110): connect, execute, fetch, close.
\* dbFault is "none", "connect" (sqlite3.connect raises) or "execute"
\* (execute or fetchall raises); every sqlite3.Error leaves as RuntimeError
ExecuteBody(sql, params) ==
    IF dbFault = "connect"
    THEN [raised |-> "RuntimeError", rows |-> NoRows, trips |-> 1,
          opened |-> 0, closed |-> 0]
    ELSE IF dbFault = "execute" \/ SqlInvalid(sql, schema)
    THEN [raised |-> "RuntimeError", rows |-> NoRows, trips |-> 1,
          opened |-> 1, closed |-> 1]
    ELSE [raised |-> "", rows |-> FetchAll(sql, params, store), trips |-> 1,
          opened |-> 1, closed |-> 1]

\* _execute_query without its decorator: every call runs the body
ExecuteQueryUncached(sql, params) ==
    LET k == CacheKey(sql, params)
        r == ExecuteBody(sql, params)
    IN  [raised |-> r.raised, rows |-> r.rows, trips |-> r.trips,
         opened |-> r.opened, closed |-> r.closed, cache |-> cache,
         hit |-> FALSE, keys |-> <<k>>]

\* a wrapper that stores the outcome of the body whether or not it raised
ExecuteQueryCachingFaults(sql, params) ==
    LET k == CacheKey(sql, params)
    IN  IF k \in CacheKeys(cache)
        THEN [raised |-> "", rows |-> CacheRows(cache, k), trips |-> 0,
              opened |-> 0, closed |-> 0, cache |-> CacheTouch(cache, k),
              hit |-> TRUE, keys |-> <<k>>]
        ELSE LET r == ExecuteBody(sql, params)
             IN  [raised |-> r.raised, rows |-> r.rows, trips |-> r.trips,
                  opened |-> r.opened, closed |-> r.closed,
                  cache |-> CacheInsert(cache, k, r.rows),
                  hit |-> FALSE, keys |-> <<k>>]

\* _execute_query(sql, params) through the lru_cache wrapper: the key is
\* hashed first, a hit returns the stored rows, a miss runs the body and
\* stores what it returns (an exception stores nothing)
_execute_query(sql, params) ==
    LET k == CacheKey(sql, params)
    IN  IF ~Hashable(params)
        THEN [raised |-> "TypeError", rows |-> NoRows, trips |-> 0,
              opened |-> 0, closed |-> 0, cache |-> cache, hit |-> FALSE,
              keys |-> <<>>]
        ELSE IF k \in CacheKeys(cache)
        THEN [raised |-> "", rows |-> CacheRows(cache, k), trips |-> 0,
              opened |-> 0, closed |-> 0, cache |-> CacheTouch(cache, k),
              hit |-> TRUE, keys |-> <<k>>]
        ELSE LET r == ExecuteBody(sql, params)
             IN  [raised |-> r.raised, rows |-> r.rows, trips |-> r.trips,
                  opened |-> r.opened, closed |-> r.closed,
                  cache |-> IF r.raised = ""
                            THEN CacheInsert(cache, k, r.rows) ELSE cache,
                  hit |-> FALSE, keys |-> <<k>>]

\* a lookup that returns before it calls _execute_query
NoQuery ==
    [raised |-> "", rows |-> NoRows, trips |-> 0, opened |-> 0, closed |-> 0,
     cache |-> cache, hit |-> FALSE, keys |-> <<>>]

----------------------------------------------------------------------------
(* log_udf_call *)

\* log_udf_call with its return statements under `if LOGGER:`
LogUdfCallNeedsSink(func_name, status, error_msg) ==
    IF LOGGER = "None"
    THEN [recs |-> <<>>, ret |-> PyNone]
    ELSE [recs |-> <<[level |-> IF error_msg # "" THEN "ERROR" ELSE "INFO",
                      func |-> func_name, status |-> status,
                      error |-> error_msg]>>,
          ret |-> IF error_msg # "" THEN PyStr("#QUERY_ERROR") ELSE PyTrue]

\* log_udf_call(func_name, params, start_time, status, error_msg): the
\* records handed to LOGGER (none when LOGGER is unset) and the value
\* returned.  error_msg is the message text, "" when the argument is left out
log_udf_call(func_name, status, error_msg) ==
    IF error_msg # ""
    THEN [recs |-> IF LOGGER # "None"
                   THEN <<[level |-> "ERROR", func |-> func_name,
                           status |-> status, error |-> error_msg]>>
                   ELSE <<>>,
          ret |-> PyStr("#QUERY_ERROR")]
    ELSE [recs |-> IF LOGGER # "None"
                   THEN <<[level |-> "INFO", func |-> func_name,
                           status |-> status, error |-> ""]>>
                   ELSE <<>>,
          ret |-> PyTrue]

----------------------------------------------------------------------------
(* The four lookups *)

\* a whitelist check that lets every text through
InWhitelistAny(field) == IsStr(field)

\* field in VALID_FIELDS: a value that is no str is no member of the set
InWhitelist(field) == IsStr(field) /\ field.s \in VALID_FIELDS

\* what a lookup call did: the value returned (or the exception raised), the
\* log records written and the use it made of _execute_query
Outcome(ret, raised, recs, q) ==
    [ret |-> ret, raised |-> raised, recs |-> recs, trips |-> q.trips,
     keys |-> q.keys, hit |-> q.hit, rows |-> q.rows, qraised |-> q.raised,
     opened |-> q.opened, closed |-> q.closed, cache |-> q.cache]

\* a grid of one cell
Cell(v) == <<<<v>>>>

\* str(e) of the RuntimeError of _execute_query, and the f-strings of the
\* other messages
MsgInputType == "Invalid input type."
MsgInvalidField == "Invalid field: {field}"
MsgNotFound == "Data not found."
MsgDatabase == "Database error: {e}"
MsgUnexpected == "Unexpected error: {e}"

get_daily_data(accord_code, field, date) ==
    LET func_name == "get_daily_data"
        table == CONFIG.DATABASE.TABLE_NAME
    IN  IF ~IsNumber(accord_code) \/ ~IsStr(field) \/ ~IsStr(date)
        THEN LET l == log_udf_call(func_name, "FAILURE", MsgInputType)
             IN  Outcome(l.ret, "", l.recs, NoQuery)
        ELSE IF ~InWhitelist(field)
        THEN LET l == log_udf_call(func_name, "FAILURE", MsgInvalidField)
             IN  Outcome(l.ret, "", l.recs, NoQuery)
        ELSE IF IntRaises(accord_code)
        THEN Outcome(PyNone, "ValueError", <<>>, NoQuery)
        ELSE
        LET sql == SqlPoint(field.s, table)
            query_params == <<PyInt(ToInt(accord_code)), date>>
            q == _execute_query(sql, query_params)
        IN  IF q.raised = "RuntimeError"
            THEN LET l == log_udf_call(func_name, "FAILURE", MsgDatabase)
                 IN  Outcome(l.ret, "", l.recs, q)
            ELSE IF q.raised # ""
            THEN LET l == log_udf_call(func_name, "FAILURE", MsgUnexpected)
                 IN  Outcome(l.ret, "", l.recs, q)
            ELSE IF q.rows = NoRows
            THEN LET l == log_udf_call(func_name, "FAILURE", MsgNotFound)
                 IN  Outcome(l.ret, "", l.recs, q)
            ELSE LET l == log_udf_call(func_name, "SUCCESS", "")
                 IN  Outcome(q.rows[1][1], "", l.recs, q)

\* the shared part with the header row put before the not-found row
GridQueryWithHeader(func_name, sql, query_params, header, notFound) ==
    LET q == _execute_query(sql, query_params)
    IN  IF q.raised = "RuntimeError"
        THEN LET l == log_udf_call(func_name, "FAILURE", MsgDatabase)
             IN  Outcome(Cell(l.ret), "", l.recs, q)
        ELSE IF q.raised # ""
        THEN LET l == log_udf_call(func_name, "FAILURE", MsgUnexpected)
             IN  Outcome(Cell(l.ret), "", l.recs, q)
        ELSE IF q.rows = NoRows
        THEN LET l == log_udf_call(func_name, "FAILURE", MsgNotFound)
             IN  Outcome(<<header, notFound>>, "", l.recs, q)
        ELSE LET l == log_udf_call(func_name, "SUCCESS", "")
             IN  Outcome(<<header>> \o q.rows, "", l.recs, q)

\* the part get_series, get_daily_matrix and get_all_mcap share from the
\* try block on: query, not-found row or header + rows, log
GridQuery(func_name, sql, query_params, header, notFound) ==
    LET q == _execute_query(sql, query_params)
    IN  IF q.raised = "RuntimeError"
        THEN LET l == log_udf_call(func_name, "FAILURE", MsgDatabase)
             IN  Outcome(Cell(l.ret), "", l.recs, q)
        ELSE IF q.raised # ""
        THEN LET l == log_udf_call(func_name, "FAILURE", MsgUnexpected)
             IN  Outcome(Cell(l.ret), "", l.recs, q)
        ELSE IF q.rows = NoRows
        THEN LET l == log_udf_call(func_name, "FAILURE", MsgNotFound)
             IN  Outcome(<<notFound>>, "", l.recs, q)
        ELSE LET l == log_udf_call(func_name, "SUCCESS", "")
             IN  Outcome(<<header>> \o q.rows, "", l.recs, q)

get_series(accord_code, field, start_date, end_date) ==
    LET func_name == "get_series"
        table == CONFIG.DATABASE.TABLE_NAME
    IN  IF ~IsNumber(accord_code) \/ ~IsStr(field)
        THEN Outcome(Cell(PyStr("#INPUT_ERROR")), "", <<>>, NoQuery)
        ELSE IF ~InWhitelist(field)
        THEN Outcome(Cell(PyStr("#INVALID_FIELD")), "", <<>>, NoQuery)
        ELSE IF IntRaises(accord_code)
        THEN Outcome(<<>>, "ValueError", <<>>, NoQuery)
        ELSE GridQuery(func_name, SqlSeries(field.s, table),
                       <<PyInt(ToInt(accord_code)), start_date, end_date>>,
                       <<PyStr("Date"), field>>,
                       <<PyStr("#N/A_DATA"), PyStr("")>>)

get_daily_matrix(date, field) ==
    LET func_name == "get_daily_matrix"
        table == CONFIG.DATABASE.TABLE_NAME
    IN  IF ~IsStr(date) \/ ~IsStr(field)
        THEN Outcome(Cell(PyStr("#INPUT_ERROR")), "", <<>>, NoQuery)
        ELSE IF ~InWhitelist(field)
        THEN Outcome(Cell(PyStr("#INVALID_FIELD")), "", <<>>, NoQuery)
        ELSE GridQuery(func_name, SqlMatrix(field.s, table), <<date>>,
                       <<PyStr("accord_code"), PyStr("company_name"),
                         PyStr("sector"), PyStr("mcap_category"), field>>,
                       <<PyStr("#N/A_DATA"), PyStr(""), PyStr(""), PyStr(""),
                         PyStr("")>>)

\* get_all_mcap with the whitelist check ahead of the type check
GetAllMcapWhitelistFirst(accord_code, field) ==
    LET func_name == "get_all_mcap"
        table == CONFIG.DATABASE.TABLE_NAME
    IN  IF ~InWhitelist(field)
        THEN Outcome(Cell(PyStr("#INVALID_FIELD")), "", <<>>, NoQuery)
        ELSE IF ~IsNumber(accord_code) \/ ~IsStr(field)
        THEN Outcome(Cell(PyStr("#INPUT_ERROR")), "", <<>>, NoQuery)
        ELSE IF IntRaises(accord_code)
        THEN Outcome(<<>>, "ValueError", <<>>, NoQuery)
        ELSE GridQuery(func_name, SqlAll(field.s, table),
                       <<PyInt(ToInt(accord_code))>>,
                       <<PyStr("Date"), field>>,
                       <<PyStr("#N/A_DATA"), PyStr("")>>)

get_all_mcap(accord_code, field) ==
    LET func_name == "get_all_mcap"
        table == CONFIG.DATABASE.TABLE_NAME
    IN  IF ~IsNumber(accord_code) \/ ~IsStr(field)
        THEN Outcome(Cell(PyStr("#INPUT_ERROR")), "", <<>>, NoQuery)
        ELSE IF ~InWhitelist(field)
        THEN Outcome(Cell(PyStr("#INVALID_FIELD")), "", <<>>, NoQuery)
        ELSE IF IntRaises(accord_code)
        THEN Outcome(<<>>, "ValueError", <<>>, NoQuery)
        ELSE GridQuery(func_name, SqlAll(field.s, table),
                       <<PyInt(ToInt(accord_code))>>,
                       <<PyStr("Date"), field>>,
                       <<PyStr("#N/A_DATA"), PyStr("")>>)

----------------------------------------------------------------------------
(* Inputs of the calls *)

\* entity ids a cell may hold: 1, 1.5, nan and a text
IdInputs == {PyInt(1), PyFloat(15), PyNaN, PyStr("1001")}
\* fields: a column of every table, a name of no table, a number
FieldInputs == {PyStr("mcap"), PyStr("revenue"), PyInt(5)}
\* dates of get_daily_data and get_daily_matrix: a stored date, an empty cell
DateInputs == {PyStr("2024-01-02"), PyNone}
\* (start_date, end_date) of get_series
RangeInputs ==
    {<<PyStr("2024-01-02"), PyStr("2024-01-03")>>,
     <<PyNone, PyStr("2024-01-03")>>,
     <<PyStr("2024-01-02"), PyList>>}

\* the store at startup and whether the log handler could be set up
Startups ==
    {[db |-> "ok", cols |-> FullColumns, handlerOk |-> TRUE],
     [db |-> "ok", cols |-> NarrowColumns, handlerOk |-> TRUE],
     [db |-> "ok", cols |-> {}, handlerOk |-> TRUE],
     [db |-> "missing", cols |-> FullColumns, handlerOk |-> TRUE],
     [db |-> "error", cols |-> {}, handlerOk |-> FALSE]}

----------------------------------------------------------------------------
(* State machine *)

NoCall ==
    [op |-> "none", args |-> <<>>, ret |-> PyNone, raised |-> "",
     recs |-> <<>>, trips |-> 0, keys |-> <<>>, hit |-> FALSE,
     rows |-> NoRows, qraised |-> "", opened |-> 0, closed |-> 0,
     prevKeys |-> <<>>, prevRaised |-> ""]

\* the threads of the host whose lookups overlap (a pair), and a thread
\* that is in no lookup
Threads == {1, 2}
IdleThread ==
    [pc |-> "idle", key |-> CacheKey(<<>>, <<>>), serial |-> 0, conn |-> 0,
     rows |-> NoRows, raised |-> "", hit |-> FALSE]

\* no lookup is running
NoThreads ==
    /\ threads = [p \in Threads |-> IdleThread]
    /\ conns = {}
    /\ cacheLock = 0
    /\ sinkLock = 0
    /\ produced = {}

\* the module as imported: load_config() and setup_logging() have run, no
\* lookup has been called
InitModule(st) ==
    /\ NoThreads
    /\ CONFIG = DefaultConfig
    /\ VALID_FIELDS = load_config(st.db, st.cols)
    /\ LOGGER = setup_logging(st.handlerOk)
    /\ schema = st.cols
    /\ store = <<>>
    /\ dbFault = IF st.db = "ok" THEN "none" ELSE "execute"
    /\ calls = 0
    /\ last = NoCall

Init ==
    /\ \E st \in Startups : InitModule(st)
    /\ cache = <<>>
    /\ lastUse = <<>>
    /\ returned = <<>>

\* f with key k mapped to v (k may be new to f)
Put(f, k, v) == [x \in DOMAIN f \cup {k} |-> IF x = k THEN v ELSE f[x]]

\* a call that falls back to the default whitelist
GlobalsAfterCallReset ==
    [CONFIG |-> CONFIG, VALID_FIELDS |-> DefaultFields]

\* the module globals after a call of a lookup, of _execute_query or of
\* log_udf_call: none of them declares `global`, and they only read CONFIG
\* (lines 85, 134) and test membership in VALID_FIELDS (line 142)
GlobalsAfterCall ==
    [CONFIG |-> CONFIG, VALID_FIELDS |-> VALID_FIELDS]

\* the effect of one call with outcome o on the state and on the histories
Observe(op, args, o) ==
    /\ calls' = calls + 1
    /\ cache' = o.cache
    /\ last' = [op |-> op, args |-> args, ret |-> o.ret, raised |-> o.raised,
                recs |-> o.recs, trips |-> o.trips, keys |-> o.keys,
                hit |-> o.hit, rows |-> o.rows, qraised |-> o.qraised,
                opened |-> o.opened, closed |-> o.closed,
                prevKeys |-> last.keys, prevRaised |-> last.qraised]
    /\ lastUse' = IF o.keys # <<>> /\ o.qraised = ""
                  THEN Put(lastUse, o.keys[1], calls + 1) ELSE lastUse
    /\ returned' = IF o.keys # <<>> /\ o.qraised = ""
                   THEN Put(returned, o.keys[1], o.rows) ELSE returned
    /\ CONFIG' = GlobalsAfterCall.CONFIG
    /\ VALID_FIELDS' = GlobalsAfterCall.VALID_FIELDS
    /\ UNCHANGED <<LOGGER, schema, store, dbFault>>
    /\ UNCHANGED threadVars

CallDailyData ==
    /\ calls < MaxCalls
    /\ \E a \in IdInputs, f \in FieldInputs, d \in DateInputs :
          Observe("get_daily_data", <<a, f, d>>, get_daily_data(a, f, d))

CallSeries ==
    /\ calls < MaxCalls
    /\ \E a \in IdInputs, f \in FieldInputs, r \in RangeInputs :
          Observe("get_series", <<a, f, r[1], r[2]>>,
                  get_series(a, f, r[1], r[2]))

CallDailyMatrix ==
    /\ calls < MaxCalls
    /\ \E d \in DateInputs, f \in FieldInputs :
          Observe("get_daily_matrix", <<d, f>>, get_daily_matrix(d, f))

CallAllMcap ==
    /\ calls < MaxCalls
    /\ \E a \in IdInputs, f \in FieldInputs :
          Observe("get_all_mcap", <<a, f>>, get_all_mcap(a, f))

\* the store gains a row (another process appends to the table)
InsertRow ==
    /\ schema # {}
    /\ Len(store) < Len(RowFeed)
    /\ store' = Append(store, RowFeed[Len(store) + 1])
    /\ UNCHANGED <<CONFIG, VALID_FIELDS, LOGGER, schema, dbFault, cache,
                   calls, last, lastUse, returned>>
    /\ UNCHANGED threadVars

\* the store starts to fail
Fault ==
    /\ dbFault = "none"
    /\ dbFault' \in {"connect", "execute"}
    /\ UNCHANGED <<CONFIG, VALID_FIELDS, LOGGER, schema, store, cache,
                   calls, last, lastUse, returned>>
    /\ UNCHANGED threadVars

\* the fault is resolved
Resolve ==
    /\ dbFault # "none"
    /\ dbFault' = "none"
    /\ UNCHANGED <<CONFIG, VALID_FIELDS, LOGGER, schema, store, cache,
                   calls, last, lastUse, returned>>
    /\ UNCHANGED threadVars

Next ==
    \/ CallDailyData
    \/ CallSeries
    \/ CallDailyMatrix
    \/ CallAllMcap
    \/ InsertRow
    \/ Fault
    \/ Resolve

Spec == Init /\ [][Next]_vars

----------------------------------------------------------------------------
(* _execute_query called directly, on a cache that earlier calls filled *)

\* (sql, params) of the direct calls: three queries of the table, one that
\* names a column of no table, one with an unhashable parameter
QueryKeys ==
    {CacheKey(SqlAll("mcap", "mcap"), <<PyInt(1)>>),
     CacheKey(SqlPoint("mcap", "mcap"), <<PyInt(1), PyStr("2024-01-02")>>),
     CacheKey(SqlSeries("mcap", "mcap"),
              <<PyInt(1), PyStr("2024-01-02"), PyStr("2024-01-03")>>),
     CacheKey(SqlAll("revenue", "mcap"), <<PyInt(1)>>),
     CacheKey(SqlAll("mcap", "mcap"), <<PyList>>)}

\* the cache after n + 2 earlier calls on the empty table: the first two of
\* QueryKeys, then get_all_mcap's query for n other entities, none called again
Warm(n) ==
    <<[key |-> CacheKey(SqlAll("mcap", "mcap"), <<PyInt(1)>>), rows |-> NoRows],
      [key |-> CacheKey(SqlPoint("mcap", "mcap"),
                        <<PyInt(1), PyStr("2024-01-02")>>), rows |-> NoRows]>>
    \o [i \in 1..n |->
          [key |-> CacheKey(SqlAll("mcap", "mcap"), <<PyInt(1000 + i)>>),
           rows |-> NoRows]]

\* the caches the direct calls start from: empty, one short of full, full
WarmCaches == {<<>>, Warm(maxsize - 3), Warm(maxsize - 2)}

InitCache ==
    /\ \E st \in {x \in Startups : x.db = "ok" /\ x.cols # {}} : InitModule(st)
    /\ cache \in WarmCaches
    /\ lastUse = [k \in CacheKeys(cache) |->
                     CacheIndex(cache, k) - Len(cache) - 1]
    /\ returned = [k \in CacheKeys(cache) |-> NoRows]

CallExecuteQuery ==
    /\ calls < MaxCalls
    /\ \E k \in QueryKeys :
          LET q == _execute_query(k.sql, k.params)
          IN  Observe("_execute_query", <<k.sql, k.params>>,
                      Outcome(q.rows, q.raised, <<>>, q))

NextCache ==
    \/ CallExecuteQuery
    \/ InsertRow
    \/ Fault
    \/ Resolve

SpecCache == InitCache /\ [][NextCache]_vars

----------------------------------------------------------------------------
(* load_config, setup_logging and log_udf_call called directly *)

\* what load_config can find at DB_PATH
DbStates == {"ok", "missing", "error"}

\* the values of CONFIG and VALID_FIELDS the module declares (lines 12, 14)
EmptyConfig == [DATABASE |-> <<>>, LOGGING |-> <<>>]
NoFields == PyNone

\* the (status, error_msg) arguments of the direct calls; error_msg "" is
\* the default of the parameter
StatusInputs == {"SUCCESS", "FAILURE"}
ErrorTexts == {"", MsgNotFound, MsgDatabase}

\* the module-level assignments have run, load_config and setup_logging
\* have not
InitUnit ==
    /\ NoThreads
    /\ CONFIG = EmptyConfig
    /\ VALID_FIELDS = NoFields
    /\ LOGGER = "None"
    /\ schema \in {FullColumns, NarrowColumns, {}}
    /\ store = <<>>
    /\ dbFault \in {"none", "execute"}
    /\ cache = <<>>
    /\ calls = 0
    /\ last = NoCall
    /\ lastUse = <<>>
    /\ returned = <<>>

\* one call of load_config(); with the store answering, the file is there
\* (db = "ok") or not; with the store failing, the introspection raises
LoadConfig ==
    /\ calls < MaxCalls
    /\ \E db \in DbStates :
          /\ (db = "error") <=> (dbFault # "none")
          /\ CONFIG' = DefaultConfig
          /\ VALID_FIELDS' = load_config(db, schema)
          /\ last' = [NoCall EXCEPT !.op = "load_config",
                                    !.args = <<db, schema>>]
    /\ calls' = calls + 1
    /\ UNCHANGED <<LOGGER, schema, store, dbFault, cache, lastUse, returned>>
    /\ UNCHANGED threadVars

\* one call of setup_logging(): nothing to do when LOGGER is set; the
\* fallback when CONFIG has no LOGGING options or the handler cannot be made
SetupLogging ==
    /\ calls < MaxCalls
    /\ \E handlerOk \in BOOLEAN :
          /\ LOGGER' = IF LOGGER # "None" THEN LOGGER
                       ELSE setup_logging(handlerOk /\ CONFIG # EmptyConfig)
          /\ last' = [NoCall EXCEPT !.op = "setup_logging",
                                    !.args = <<handlerOk>>]
    /\ calls' = calls + 1
    /\ UNCHANGED <<CONFIG, VALID_FIELDS, schema, store, dbFault, cache,
                   lastUse, returned>>
    /\ UNCHANGED threadVars

\* one call of log_udf_call(func_name, params, start_time, status, error_msg)
CallLogUdf ==
    /\ calls < MaxCalls
    /\ \E f \in {"get_daily_data", "get_series"},
          st \in StatusInputs, e \in ErrorTexts :
          LET l == log_udf_call(f, st, e)
          IN  Observe("log_udf_call", <<PyStr(f), PyStr(st), PyStr(e)>>,
                      Outcome(l.ret, "", l.recs, NoQuery))

NextUnit ==
    \/ LoadConfig
    \/ SetupLogging
    \/ CallLogUdf

SpecUnit == InitUnit /\ [][NextUnit]_vars

----------------------------------------------------------------------------
(* The lookups under every state of the log sink *)

\* LOGGER with the rotating handler, the handler-less fallback of
\* setup_logging, and the value the module declares (line 13)
LoggerStates == {"QueryLogger", "FallbackLogger", "None"}

InitSink ==
    /\ NoThreads
    /\ CONFIG = DefaultConfig
    /\ VALID_FIELDS = load_config("ok", FullColumns)
    /\ LOGGER \in LoggerStates
    /\ schema = FullColumns
    /\ store \in {<<>>, RowFeed}
    /\ dbFault = "none"
    /\ cache = <<>>
    /\ calls = 0
    /\ last = NoCall
    /\ lastUse = <<>>
    /\ returned = <<>>

\* the lookups, on an empty or a filled table and a store that may start
\* to fail
NextSink ==
    \/ CallDailyData
    \/ CallSeries
    \/ CallDailyMatrix
    \/ CallAllMcap
    \/ Fault

SpecSink == InitSink /\ [][NextSink]_vars

----------------------------------------------------------------------------
(* Lookups called from several threads at once, step by step *)

\* the keys the threads look up: get_all_mcap(id, 'mcap') for three
\* entities, the first of them resident in the warmed caches
ThreadKeys == {CacheKey(SqlAll("mcap", "mcap"), <<PyInt(i)>>) : i \in 1..3}

\* a wrapper that keeps its lock while the wrapped function runs
HeldWhileCallingSelf(p) == p

\* the holder of the cache lock while thread p runs the wrapped function:
\* the wrapper leaves its critical section before it calls the function
HeldWhileCalling(p) == 0

\* a body whose close is skipped when execute raises (no finally clause)
AfterExecuteRaisedNoFinally == "log"

\* where the body goes when execute or fetchall raised: into the finally
\* clause, which closes the connection before RuntimeError leaves
AfterExecuteRaised == "close"

\* the miss path storing its result without looking for the key again
CacheStoreNoRecheck(c, k, rows) == CacheInsert(c, k, rows)

\* the wrapper after the wrapped function returned: a key that another call
\* stored in the meantime is left as it is, else the result is inserted
CacheStoreAfterCall(c, k, rows) ==
    IF k \in CacheKeys(c) THEN c ELSE CacheInsert(c, k, rows)

InitThreads ==
    /\ CONFIG = DefaultConfig
    /\ VALID_FIELDS = load_config("ok", FullColumns)
    /\ LOGGER = setup_logging(TRUE)
    /\ schema = FullColumns
    /\ store = <<>>
    /\ dbFault = "none"
    /\ cache \in {<<>>, Warm(maxsize - 2)}
    /\ calls = 0
    /\ last = NoCall
    /\ lastUse = <<>>
    /\ returned = <<>>
    /\ threads = [p \in Threads |-> IdleThread]
    /\ conns = {}
    /\ cacheLock = 0
    /\ sinkLock = 0
    /\ produced = {[key |-> cache[i].key, rows |-> cache[i].rows] :
                      i \in 1..Len(cache)}

\* thread p moves to record t; the sequential observations stay
ThreadStep(p, t) ==
    /\ threads' = [threads EXCEPT ![p] = t]
    /\ UNCHANGED <<CONFIG, VALID_FIELDS, LOGGER, schema, store, dbFault,
                   last, lastUse, returned>>

\* the host calls a lookup on thread p: the arguments pass validation, the
\* SQL text is built and _execute_query is called
Begin(p) ==
    /\ threads[p].pc = "idle"
    /\ calls < MaxCalls
    /\ \E k \in ThreadKeys :
          ThreadStep(p, [IdleThread EXCEPT !.pc = "lookup", !.key = k,
                                           !.serial = calls + 1])
    /\ calls' = calls + 1
    /\ UNCHANGED <<cache, conns, cacheLock, sinkLock, produced>>

\* the wrapper enters its critical section to look the key up
AcquireCache(p) ==
    /\ threads[p].pc \in {"lookup", "store"}
    /\ cacheLock \in {0, p}
    /\ cacheLock' = p
    /\ ThreadStep(p, [threads[p] EXCEPT
                        !.pc = IF @ = "lookup" THEN "check" ELSE "insert"])
    /\ UNCHANGED <<cache, calls, conns, sinkLock, produced>>

\* the lookup inside the critical section: a hit returns the stored rows
\* and refreshes the entry, a miss goes on to call the wrapped function
CacheCheck(p) ==
    /\ threads[p].pc = "check"
    /\ LET k == threads[p].key
       IN  IF k \in CacheKeys(cache)
           THEN /\ cache' = CacheTouch(cache, k)
                /\ cacheLock' = 0
                /\ ThreadStep(p, [threads[p] EXCEPT !.pc = "log",
                                    !.hit = TRUE,
                                    !.rows = CacheRows(cache, k)])
           ELSE /\ cache' = cache
                /\ cacheLock' = HeldWhileCalling(p)
                /\ ThreadStep(p, [threads[p] EXCEPT !.pc = "connect"])
    /\ UNCHANGED <<calls, conns, sinkLock, produced>>

\* conn = _connect_db(): a connection of this call alone, or sqlite3.Error
\* with conn still None
Connect(p) ==
    /\ threads[p].pc = "connect"
    /\ IF dbFault = "connect"
       THEN /\ ThreadStep(p, [threads[p] EXCEPT !.pc = "log",
                                !.raised = "RuntimeError"])
            /\ conns' = conns
       ELSE /\ ThreadStep(p, [threads[p] EXCEPT !.pc = "execute",
                                !.conn = threads[p].serial])
            /\ conns' = conns \cup {threads[p].serial}
    /\ UNCHANGED <<cache, calls, cacheLock, sinkLock, produced>>

\* cursor.execute(sql, params); rows = cursor.fetchall(): the store round
\* trip, which answers the rows of the table as it is now or raises
Execute(p) ==
    /\ threads[p].pc = "execute"
    /\ LET k == threads[p].key
           r == ExecuteBody(k.sql, k.params)
       IN  IF r.raised # ""
           THEN /\ ThreadStep(p, [threads[p] EXCEPT !.pc = AfterExecuteRaised,
                                    !.raised = "RuntimeError"])
                /\ produced' = produced
           ELSE /\ ThreadStep(p, [threads[p] EXCEPT !.pc = "close",
                                    !.rows = r.rows])
                /\ produced' = produced \cup {[key |-> k, rows |-> r.rows]}
    /\ UNCHANGED <<cache, calls, conns, cacheLock, sinkLock>>

\* finally: conn.close(); then the rows return to the wrapper, or
\* RuntimeError leaves through it
Close(p) ==
    /\ threads[p].pc = "close"
    /\ conns' = conns \ {threads[p].conn}
    /\ ThreadStep(p, [threads[p] EXCEPT !.conn = 0,
                        !.pc = IF threads[p].raised = "" THEN "store"
                               ELSE "log"])
    /\ UNCHANGED <<cache, calls, cacheLock, sinkLock, produced>>

\* the wrapper stores the result inside its critical section and leaves it
CacheStore(p) ==
    /\ threads[p].pc = "insert"
    /\ cache' = CacheStoreAfterCall(cache, threads[p].key, threads[p].rows)
    /\ cacheLock' = 0
    /\ ThreadStep(p, [threads[p] EXCEPT !.pc = "log"])
    /\ UNCHANGED <<calls, conns, sinkLock, produced>>

\* log_udf_call: LOGGER.info / LOGGER.error takes the lock of the handler
AcquireSink(p) ==
    /\ threads[p].pc = "log"
    /\ sinkLock = 0
    /\ sinkLock' = p
    /\ ThreadStep(p, [threads[p] EXCEPT !.pc = "emit"])
    /\ UNCHANGED <<cache, calls, conns, cacheLock, produced>>

\* the line is appended, the handler lock released, the lookup returns
Emit(p) ==
    /\ threads[p].pc = "emit"
    /\ sinkLock' = 0
    /\ ThreadStep(p, IdleThread)
    /\ UNCHANGED <<cache, calls, conns, cacheLock, produced>>

\* the table gets its first row while lookups run
AppendFirstRow == store = <<>> /\ InsertRow

NextThreads ==
    \/ \E p \in Threads : Begin(p)
    \/ \E p \in Threads : AcquireCache(p)
    \/ \E p \in Threads : CacheCheck(p)
    \/ \E p \in Threads : Connect(p)
    \/ \E p \in Threads : Execute(p)
    \/ \E p \in Threads : Close(p)
    \/ \E p \in Threads : CacheStore(p)
    \/ \E p \in Threads : AcquireSink(p)
    \/ \E p \in Threads : Emit(p)
    \/ AppendFirstRow
    \/ Fault

SpecThreads == InitThreads /\ [][NextThreads]_vars

----------------------------------------------------------------------------
(* Vocabulary of the properties *)

LookupOps == {"get_daily_data", "get_series", "get_daily_matrix", "get_all_mcap"}

\* the step is a call (of a lookup or of _execute_query)
CallStep == calls' = calls + 1

\* the field argument of a lookup call: the second argument of all four
FieldArg(l) == l.args[2]

\* the value is a member of the whitelist in force
Member(f) == f.t = "str" /\ f.s \in VALID_FIELDS

ErrorCells ==
    {Cell(PyStr("#INPUT_ERROR")), Cell(PyStr("#INVALID_FIELD")),
     Cell(PyStr("#QUERY_ERROR"))}

\* the call returned a sentinel token in place of data
ReturnedToken(l) ==
    /\ l.raised = ""
    /\ IF l.op = "get_daily_data"
       THEN l.ret = PyStr("#QUERY_ERROR")
       ELSE l.ret \in ErrorCells
            \/ (Len(l.ret) = 1 /\ l.ret[1][1] = PyStr("#N/A_DATA"))

\* the call never entered _execute_query and opened no connection
NoStoreAccess(l) ==
    l.keys = <<>> /\ l.trips = 0 /\ l.opened = 0 /\ ~l.hit

\* the identifiers the lookups write into their texts themselves
FixedIdentifiers ==
    {"accord_code", "company_name", "sector", "mcap_category", "date"}

----------------------------------------------------------------------------
(* C1 *)

\* C1: a lookup called with a field that is no member of VALID_FIELDS
\* returns a failure token, never enters _execute_query, opens no connection
\* and leaves the cache as it was.
C1_WhitelistEnforced ==
    [][(CallStep /\ last'.op \in LookupOps /\ ~Member(FieldArg(last')))
        => /\ ReturnedToken(last')
           /\ NoStoreAccess(last')
           /\ cache' = cache]_vars

\* C1 witness: after an earlier lookup filled the cache, get_series was called
\* with a text field outside the whitelist and answered #INVALID_FIELD.
C1_Witness ==
    /\ last.op = "get_series"
    /\ IsStr(FieldArg(last)) /\ FieldArg(last).s \notin VALID_FIELDS
    /\ IsNumber(last.args[1])
    /\ last.ret = Cell(PyStr("#INVALID_FIELD"))
    /\ cache # <<>>

----------------------------------------------------------------------------
(* C2 *)

\* C2 (as claimed): every SQL text handed to _execute_query holds only
\* column identifiers that are members of VALID_FIELDS, the fixed identifiers
\* of the projection and filter included, whatever columns the table declares.
C2_AllIdentifiersWhitelisted ==
    last.keys # <<>> => SqlColumns(last.keys[1].sql) \subseteq VALID_FIELDS

\* C2 (amended): in every SQL text a lookup hands to _execute_query the
\* caller-supplied field is a member of VALID_FIELDS, and every identifier of
\* the text is that field or one of the fixed identifiers accord_code,
\* company_name, sector, mcap_category, date; the fixed ones are members of
\* VALID_FIELDS only when the whitelist in force holds them.
C2_FieldWhitelisted ==
    (last.op \in LookupOps /\ last.keys # <<>>)
        => /\ Member(FieldArg(last))
           /\ FieldArg(last).s \in SqlColumns(last.keys[1].sql)
           /\ SqlColumns(last.keys[1].sql)
                 \subseteq FixedIdentifiers \cup {FieldArg(last).s}
           /\ SqlColumns(last.keys[1].sql) \ FixedIdentifiers
                 \subseteq VALID_FIELDS

\* C2 witness: get_daily_matrix handed over a text naming company_name while
\* the whitelist, read from a narrower table, does not hold it.
C2_Witness ==
    /\ last.op = "get_daily_matrix"
    /\ last.keys # <<>>
    /\ "company_name" \in SqlColumns(last.keys[1].sql)
    /\ "company_name" \notin VALID_FIELDS
    /\ FieldArg(last).s \in VALID_FIELDS

----------------------------------------------------------------------------
(* C3 *)

\* the key of the call, when it reached the wrapper with a hashable key
KeyOf(l) == l.keys[1]

\* C3: a call of _execute_query whose key is resident in the cache returns
\* what the last successful call with that key returned and makes no store
\* round trip (it opens no connection), whatever the store holds by then.
C3_HitReturnsSame ==
    [][(CallStep /\ last'.op = "_execute_query" /\ last'.keys # <<>>
            /\ KeyOf(last') \in CacheKeys(cache))
        => /\ last'.raised = ""
           /\ last'.ret = returned[KeyOf(last')]
           /\ last'.trips = 0 /\ last'.opened = 0
           /\ returned' = returned]_vars

\* C3 witness: a call was served rows from the cache although the store,
\* asked now, would answer other rows.
C3_Witness ==
    /\ last.op = "_execute_query" /\ last.hit /\ last.trips = 0
    /\ last.ret # NoRows
    /\ dbFault = "none"
    /\ last.ret # FetchAll(KeyOf(last).sql, KeyOf(last).params, store)

----------------------------------------------------------------------------
(* C4 *)

\* C4: a call of _execute_query that fails with a store error leaves the
\* cache as it was, without an entry for its key; and when the call before
\* failed so on the same key and the fault is resolved, the call makes a
\* store round trip and returns the rows the store holds.
C4_FaultNotCached ==
    [][(CallStep /\ last'.op = "_execute_query" /\ last'.keys # <<>>)
        => /\ (last'.raised = "RuntimeError"
                 => /\ cache' = cache
                    /\ KeyOf(last') \notin CacheKeys(cache'))
           /\ ((/\ last.keys = last'.keys
                /\ last.raised = "RuntimeError"
                /\ dbFault = "none"
                /\ ~SqlInvalid(KeyOf(last').sql, schema))
                 => /\ last'.raised = ""
                    /\ last'.trips = 1
                    /\ last'.ret = FetchAll(KeyOf(last').sql,
                                            KeyOf(last').params, store))]_vars

\* C4 witness: the call before failed with a store error, this one, with the
\* same key, reached the store and returned its rows.
C4_Witness ==
    /\ last.op = "_execute_query"
    /\ last.keys # <<>> /\ last.prevKeys = last.keys
    /\ last.prevRaised = "RuntimeError"
    /\ last.raised = "" /\ last.trips = 1
    /\ last.ret # NoRows

----------------------------------------------------------------------------
(* C5 *)

\* the call ended in a failure: it raised, or returned a sentinel token
FailureOutcome(l) == l.raised # "" \/ ReturnedToken(l)

\* C5 (as claimed): no lookup call raises to its caller, and every failure
\* outcome has a log entry.  The code raises ValueError on an entity id that
\* int() cannot convert, and three lookups return the validation tokens
\* unlogged.
C5_NeverRaisesAlwaysLogs ==
    last.op \in LookupOps
        => /\ last.raised = ""
           /\ (FailureOutcome(last) => Len(last.recs) >= 1)

----------------------------------------------------------------------------
(* C6 *)

\* C6 (as claimed): every lookup call that returns has written exactly one
\* call record, with status SUCCESS when it returns data and FAILURE
\* otherwise.  get_series, get_daily_matrix and get_all_mcap write none on a
\* validation rejection.
C6_OneRecordPerCall ==
    (last.op \in LookupOps /\ last.raised = "")
        => /\ Len(last.recs) = 1
           /\ last.recs[1].status
                 = (IF FailureOutcome(last) THEN "FAILURE" ELSE "SUCCESS")

----------------------------------------------------------------------------
(* C7 *)

\* the keys the step removed from the cache
Evicted == CacheKeys(cache) \ CacheKeys(cache')

\* C7: a successful miss of _execute_query on a cache holding maxsize = 128
\* entries evicts exactly one entry, the one whose most recent use is
\* oldest, and never the key the call before hit; below capacity and on a hit
\* nothing is evicted; a call whose key is not resident (an evicted key
\* included) is a miss that reaches the store.
C7_LruEviction ==
    [][(CallStep /\ last'.op = "_execute_query" /\ last'.keys # <<>>)
        => /\ (KeyOf(last') \notin CacheKeys(cache)
                 => last'.trips = 1 /\ ~last'.hit)
           /\ ((/\ KeyOf(last') \notin CacheKeys(cache)
                /\ last'.raised = ""
                /\ Len(cache) = maxsize)
                 => /\ Cardinality(Evicted) = 1
                    /\ Len(cache') = maxsize
                    /\ KeyOf(last') \in CacheKeys(cache')
                    /\ \A v \in Evicted : \A j \in CacheKeys(cache) :
                          lastUse[v] <= lastUse[j]
                    /\ (last.hit => KeyOf(last) \notin Evicted))
           /\ ((Len(cache) < maxsize \/ last'.hit \/ last'.raised # "")
                 => Evicted = {})]_vars

\* C7 witness: the cache is full, the last call was a successful miss, the
\* entry that was oldest at the start is still resident (a hit refreshed it)
\* and the entry that was second oldest is gone.
C7_Witness ==
    /\ last.op = "_execute_query"
    /\ Len(cache) = maxsize
    /\ last.keys # <<>> /\ ~last.hit /\ last.raised = ""
    /\ Warm(0)[1].key \in CacheKeys(cache)
    /\ Warm(0)[2].key \notin CacheKeys(cache)
    /\ Warm(0)[2].key \in DOMAIN lastUse

----------------------------------------------------------------------------
(* C8 *)

\* the query of the call ran and answered zero rows
ZeroRows(l) == l.keys # <<>> /\ l.qraised = "" /\ l.rows = NoRows

\* C8 (as claimed): after a lookup whose query answered zero rows the empty
\* result is no cache entry, and the next lookup with the same key makes a
\* store round trip again.
C8_EmptyResultNotCached ==
    [][(CallStep /\ last'.op \in LookupOps /\ last'.keys # <<>>)
        => /\ (ZeroRows(last') => KeyOf(last') \notin CacheKeys(cache'))
           /\ ((ZeroRows(last) /\ last.keys = last'.keys)
                 => last'.trips = 1)]_vars

\* C8 (amended): after a lookup whose query answered zero rows the empty
\* result is a cache entry like any other, and the next lookup with the same
\* key is served from the cache: it makes no store round trip and reports
\* not found again, whatever the store holds by then.
C8_EmptyResultCached ==
    [][(CallStep /\ last'.op \in LookupOps /\ last'.keys # <<>>)
        => /\ (ZeroRows(last')
                 => \E i \in 1..Len(cache') :
                       cache'[i] = [key |-> KeyOf(last'), rows |-> NoRows])
           /\ ((ZeroRows(last) /\ last.keys = last'.keys)
                 => /\ last'.hit /\ last'.trips = 0 /\ last'.opened = 0
                    /\ ZeroRows(last')
                    /\ ReturnedToken(last'))]_vars

\* C8 witness: a lookup was answered not found from the cache, right after a
\* lookup with the same key, while the store now holds rows for it.
C8_Witness ==
    /\ last.op \in LookupOps
    /\ ZeroRows(last) /\ last.hit /\ last.trips = 0
    /\ last.prevKeys = last.keys
    /\ dbFault = "none"
    /\ FetchAll(KeyOf(last).sql, KeyOf(last).params, store) # NoRows

----------------------------------------------------------------------------
(* C9 *)

\* the lookups that take an entity id and a field
IdOps == {"get_daily_data", "get_series", "get_all_mcap"}

\* the call reported an input type mismatch: get_daily_data logs it and
\* returns the token of log_udf_call, the others return #INPUT_ERROR
InputErrorReported(l) ==
    IF l.op = "get_daily_data"
    THEN /\ l.ret = PyStr("#QUERY_ERROR")
         /\ Len(l.recs) = 1 /\ l.recs[1].error = MsgInputType
    ELSE l.ret = Cell(PyStr("#INPUT_ERROR"))

\* C9: a lookup that takes an entity id and a field, called with an entity
\* id that is no number or a field that is no str, returns the input-error
\* token whether or not the field is whitelisted, builds no SQL, never enters
\* _execute_query and leaves the cache as it was.
C9_TypeCheckFirst ==
    [][(/\ CallStep /\ last'.op \in IdOps
        /\ (~(last'.args[1].t \in {"int", "float", "nan"})
              \/ last'.args[2].t # "str"))
        => /\ InputErrorReported(last')
           /\ NoStoreAccess(last')
           /\ cache' = cache]_vars

\* C9 witness: after an earlier lookup filled the cache, get_all_mcap was
\* called with a text entity id and a text field outside the whitelist, and
\* answered #INPUT_ERROR, not #INVALID_FIELD.
C9_Witness ==
    /\ last.op = "get_all_mcap"
    /\ last.args[1].t = "str"
    /\ last.args[2].t = "str" /\ ~Member(last.args[2])
    /\ last.ret = Cell(PyStr("#INPUT_ERROR"))
    /\ cache # <<>>

----------------------------------------------------------------------------
(* C10 *)

\* the date arguments of a lookup call
DateArgs(l) ==
    IF l.op = "get_daily_data" THEN {l.args[3]}
    ELSE IF l.op = "get_series" THEN {l.args[3], l.args[4]}
    ELSE IF l.op = "get_daily_matrix" THEN {l.args[1]}
    ELSE {}

\* C10 (as claimed): every lookup that takes a date rejects a date that is
\* no str before any store round trip, so no such value is ever bound as a
\* query parameter.  get_series checks neither start_date nor end_date.
C10_DatesValidated ==
    last.op \in LookupOps
        => /\ ((\E d \in DateArgs(last) : d.t # "str")
                 => FailureOutcome(last) /\ NoStoreAccess(last))
           /\ (last.keys # <<>>
                 => \A i \in 1..Len(KeyOf(last).params) :
                       KeyOf(last).params[i].t \in {"int", "str"})

----------------------------------------------------------------------------
(* C11 *)

\* the token a returning lookup call handed back: the value itself for
\* get_daily_data, the first cell of the grid for the others
Token(l) == IF l.op = "get_daily_data" THEN l.ret ELSE l.ret[1][1]

\* the arguments fail the isinstance test the lookup makes
TypeMismatch(l) ==
    IF l.op = "get_daily_data"
    THEN ~(l.args[1].t \in {"int", "float", "nan"})
         \/ l.args[2].t # "str" \/ l.args[3].t # "str"
    ELSE IF l.op = "get_daily_matrix"
    THEN l.args[1].t # "str" \/ l.args[2].t # "str"
    ELSE ~(l.args[1].t \in {"int", "float", "nan"}) \/ l.args[2].t # "str"

\* C11 (as claimed): the token of a failed lookup names the failure class,
\* the same way in all four lookups: #INPUT_ERROR for a type mismatch,
\* #INVALID_FIELD for a field outside the whitelist, #N/A_DATA for zero rows,
\* #QUERY_ERROR for a store fault.  get_daily_data returns the token of
\* log_udf_call, #QUERY_ERROR, for every class.
C11_TokenNamesClass ==
    (last.op \in LookupOps /\ last.raised = "")
        => /\ (TypeMismatch(last) => Token(last) = PyStr("#INPUT_ERROR"))
           /\ ((~TypeMismatch(last) /\ ~Member(FieldArg(last)))
                 => Token(last) = PyStr("#INVALID_FIELD"))
           /\ (ZeroRows(last) => Token(last) = PyStr("#N/A_DATA"))
           /\ (last.qraised = "RuntimeError"
                 => Token(last) = PyStr("#QUERY_ERROR"))

----------------------------------------------------------------------------
(* C12 *)

GridOps == {"get_series", "get_daily_matrix", "get_all_mcap"}

\* the number of columns of the success grid: one per projected column
GridWidth(l) == Len(SqlSelectList(KeyOf(l).sql))

\* row is the sentinel row: #N/A_DATA, then empty cells
SentinelRow(row) ==
    /\ row[1] = PyStr("#N/A_DATA")
    /\ \A i \in 2..Len(row) : row[i] = PyStr("")

\* C12 (as claimed): when the query of get_series, get_all_mcap or
\* get_daily_matrix answers zero rows, the grid returned is the header row
\* followed by one sentinel row, as wide as the success grid.
C12_HeaderThenSentinel ==
    (last.op \in GridOps /\ last.raised = "" /\ ZeroRows(last))
        => /\ Len(last.ret) = 2
           /\ last.ret[1][1] \in {PyStr("Date"), PyStr("accord_code")}
           /\ SentinelRow(last.ret[2])
           /\ Len(last.ret[1]) = GridWidth(last)
           /\ Len(last.ret[2]) = GridWidth(last)

\* C12 (amended): when the query of get_series, get_all_mcap or
\* get_daily_matrix answers zero rows, the grid returned is one sentinel row
\* and nothing else, without a header row: #N/A_DATA followed by empty
\* cells, as wide as the success grid (2 columns, 5 for get_daily_matrix).
C12_SentinelRowOnly ==
    (last.op \in GridOps /\ last.raised = "" /\ ZeroRows(last))
        => /\ Len(last.ret) = 1
           /\ SentinelRow(last.ret[1])
           /\ Len(last.ret[1]) = GridWidth(last)
           /\ Len(last.ret[1]) = (IF last.op = "get_daily_matrix" THEN 5 ELSE 2)

\* C12 witness: get_daily_matrix found no row for its date and returned the
\* one row of five cells.
C12_Witness ==
    /\ last.op = "get_daily_matrix"
    /\ ZeroRows(last) /\ last.raised = ""
    /\ Len(last.ret) = 1 /\ Len(last.ret[1]) = 5

----------------------------------------------------------------------------
(* C13 *)

\* C13 (as claimed): the status argument of log_udf_call decides severity
\* and returned token: FAILURE, with or without an error text, is written at
\* error severity and returns #QUERY_ERROR; SUCCESS is written at info
\* severity and returns True.  log_udf_call tests error_msg, not status.
C13_StatusDecides ==
    last.op = "log_udf_call"
        => /\ (last.args[2] = PyStr("FAILURE")
                 => /\ last.ret = PyStr("#QUERY_ERROR")
                    /\ \A i \in 1..Len(last.recs) :
                          last.recs[i].level = "ERROR")
           /\ (last.args[2] = PyStr("SUCCESS")
                 => /\ last.ret = PyTrue
                    /\ \A i \in 1..Len(last.recs) :
                          last.recs[i].level = "INFO")

----------------------------------------------------------------------------
(* C15 *)

\* C15: load_config returns without raising on any introspection outcome
\* and leaves VALID_FIELDS non-empty: the default set accord_code,
\* company_name, sector, mcap_category, date, mcap when the store file is
\* missing, the table declares no column or the introspection raises, the
\* declared column names of the table otherwise.
C15_WhitelistNeverEmpty ==
    last.op = "load_config"
        => /\ last.raised = ""
           /\ VALID_FIELDS # {}
           /\ IF last.args[1] = "ok" /\ last.args[2] # {}
              THEN VALID_FIELDS = last.args[2]
              ELSE VALID_FIELDS = {"accord_code", "company_name", "sector",
                                   "mcap_category", "date", "mcap"}

\* C15 witness: load_config found the file, and a table that declares no
\* column, and fell back to the default set.
C15_Witness ==
    /\ last.op = "load_config"
    /\ last.args = <<"ok", {}>>
    /\ "mcap" \in VALID_FIELDS

----------------------------------------------------------------------------
(* C14 *)

\* the call ran its query without error and the query answered rows
Successful(l) == l.raised = "" /\ l.keys # <<>> /\ l.qraised = "" /\ l.rows # NoRows

\* positions of the rows of the table that pass the filter of call l: the
\* entity id, for get_series also the date within [start, end], for
\* get_daily_data also the date itself
Matching(l, table) ==
    {i \in 1..Len(table) :
        /\ table[i].accord_code = PyInt(ToInt(l.args[1]))
        /\ l.op = "get_series"
             => /\ StrOrd(l.args[3].s) <= StrOrd(table[i].date.s)
                /\ StrOrd(table[i].date.s) <= StrOrd(l.args[4].s)
        /\ l.op = "get_daily_data" => table[i].date = l.args[3]}

\* grid is the header ['Date', field] followed by one row (date, field
\* value) per matching row of the table, in ascending date order
GridOfMatching(l, grid, table) ==
    LET n == Len(grid) - 1
    IN  /\ n >= 0
        /\ grid[1] = <<PyStr("Date"), l.args[2]>>
        /\ n = Cardinality(Matching(l, table))
        /\ \A i \in Matching(l, table) : \E j \in 1..n :
              grid[j + 1] = <<table[i].date, table[i][l.args[2].s]>>
        /\ \A j \in 1..n : \E i \in Matching(l, table) :
              grid[j + 1] = <<table[i].date, table[i][l.args[2].s]>>
        /\ \A j, k \in 1..n :
              j < k => StrOrd(grid[j + 1][1].s) <= StrOrd(grid[k + 1][1].s)

\* value is the field value of a row of the table matching id and date
ValueOfMatching(l, value, table) ==
    \E i \in Matching(l, table) : value = table[i][l.args[2].s]

\* what call l returned is right for the table
ReturnMatches(l, table) ==
    IF l.op = "get_daily_data"
    THEN ValueOfMatching(l, l.ret, table)
    ELSE GridOfMatching(l, l.ret, table)

\* C14 (as claimed): a successful get_series or get_all_mcap call returns the
\* header ['Date', field] followed by exactly the rows of the table matching
\* the filter, one per stored row, in ascending date order; a successful
\* get_daily_data call returns the field value of the matching row.
C14_ReturnsMatchingRows ==
    [][(/\ CallStep
        /\ last'.op \in {"get_series", "get_all_mcap", "get_daily_data"}
        /\ Successful(last'))
          => ReturnMatches(last', store')]_vars

\* C14 (amended): a successful get_series, get_all_mcap or get_daily_data
\* call whose query reaches the store returns exactly the matching rows of
\* the table as it is then (header ['Date', field], one row per stored row,
\* ascending date; the field value for get_daily_data); a successful call
\* answered from the cache returns the rows of the call that filled the
\* entry, whatever the table holds by then.
C14_ReturnsMatchingOrCached ==
    [][(/\ CallStep
        /\ last'.op \in {"get_series", "get_all_mcap", "get_daily_data"}
        /\ Successful(last'))
          => IF last'.hit
             THEN /\ KeyOf(last') \in DOMAIN returned
                  /\ IF last'.op = "get_daily_data"
                     THEN last'.ret = returned[KeyOf(last')][1][1]
                     ELSE last'.ret = <<<<PyStr("Date"), last'.args[2]>>>>
                                         \o returned[KeyOf(last')]
             ELSE ReturnMatches(last', store')]_vars

\* C14 witness: get_series went to the store and returned the two rows of
\* entity 1, which the table holds in descending date order.
C14_Witness ==
    /\ last.op = "get_series"
    /\ Successful(last) /\ ~last.hit
    /\ Len(last.ret) = 3
    /\ last.ret[2][1] = PyStr("2024-01-02")
    /\ last.ret[3][1] = PyStr("2024-01-03")

----------------------------------------------------------------------------
(* C16 *)

\* what call l returns when the sink works: the token of its failure class,
\* or the rows its query answered under the header of the lookup
ReturnWithWorkingSink(l) ==
    IF l.op = "get_daily_data"
    THEN IF Successful(l) THEN l.rows[1][1] ELSE PyStr("#QUERY_ERROR")
    ELSE IF TypeMismatch(l) THEN <<<<PyStr("#INPUT_ERROR")>>>>
    ELSE IF ~Member(FieldArg(l)) THEN <<<<PyStr("#INVALID_FIELD")>>>>
    ELSE IF l.qraised # "" THEN <<<<PyStr("#QUERY_ERROR")>>>>
    ELSE IF l.rows = NoRows
    THEN IF l.op = "get_daily_matrix"
         THEN <<<<PyStr("#N/A_DATA"), PyStr(""), PyStr(""), PyStr(""),
                  PyStr("")>>>>
         ELSE <<<<PyStr("#N/A_DATA"), PyStr("")>>>>
    ELSE IF l.op = "get_daily_matrix"
    THEN <<<<PyStr("accord_code"), PyStr("company_name"), PyStr("sector"),
             PyStr("mcap_category"), l.args[2]>>>> \o l.rows
    ELSE <<<<PyStr("Date"), l.args[2]>>>> \o l.rows

\* C16: the state of the log sink changes nothing a lookup returns and
\* raises nothing: with LOGGER the fallback logger or unset, a lookup
\* returns the value or token it returns with the working handler.
C16_SinkNeverChangesReturn ==
    last.op \in LookupOps
        => IF last.raised = ""
           THEN last.ret = ReturnWithWorkingSink(last)
           ELSE IntRaises(last.args[1])

\* C16 witness: with LOGGER unset, get_series found no rows, wrote no
\* record and returned the not-found row.
C16_Witness ==
    /\ LOGGER = "None"
    /\ last.op = "get_series"
    /\ ZeroRows(last) /\ last.recs = <<>>
    /\ last.ret[1][1] = PyStr("#N/A_DATA")

----------------------------------------------------------------------------
(* C17 *)

\* thread p is inside the body of _execute_query
InBody(p) == threads[p].pc \in {"connect", "execute", "close"}

\* C17: every connection _execute_query opens is closed before the call
\* returns or raises: with no call inside the body no connection is open,
\* every open connection belongs to one call inside the body, and a call
\* holds at most one connection, which no other call holds.
C17_ConnectionsScoped ==
    /\ (\A p \in Threads : ~InBody(p)) => conns = {}
    /\ \A c \in conns :
          \E p \in Threads : InBody(p) /\ threads[p].conn = c
    /\ \A p \in Threads : threads[p].conn # 0 => threads[p].conn \in conns
    /\ \A p, q \in Threads :
          (p # q /\ threads[p].conn # 0) => threads[p].conn # threads[q].conn
    /\ Cardinality(conns) <= Cardinality({p \in Threads : InBody(p)})

\* C17 witness: a call whose execute raised has left the body with
\* RuntimeError while the other call is still inside, and the only open
\* connection is the one of the other call.
C17_Witness ==
    \E p, q \in Threads :
        /\ threads[p].pc = "log" /\ threads[p].raised = "RuntimeError"
        /\ dbFault = "execute"
        /\ threads[q].pc = "close"
        /\ conns = {threads[q].conn}

----------------------------------------------------------------------------
(* C18 *)

\* C18: under any interleaving of concurrent lookups, two overlapping
\* misses of one key included, the cache holds at most 128 entries and at
\* most one entry per key, and every rows value a caller gets for a key
\* (from the cache or from its own call) is the whole result of one store
\* round trip for that key.
C18_CacheConsistent ==
    /\ Len(cache) <= maxsize
    /\ Cardinality({cache[i].key : i \in 1..Len(cache)}) = Len(cache)
    /\ \A i \in 1..Len(cache) :
          [key |-> cache[i].key, rows |-> cache[i].rows] \in produced
    /\ \A p \in Threads :
          (threads[p].pc \in {"log", "emit"} /\ threads[p].raised = "")
              => [key |-> threads[p].key, rows |-> threads[p].rows]
                    \in produced

\* C18 witness: both threads missed the same key on a full cache and made
\* their own round trips; the first has stored its result, the second has
\* found the key stored and left the cache as it was.
C18_Witness ==
    /\ threads[1].key = threads[2].key
    /\ threads[1].pc = "log" /\ threads[2].pc = "log"
    /\ ~threads[1].hit /\ ~threads[2].hit
    /\ threads[1].raised = "" /\ threads[2].raised = ""
    /\ Len(cache) = maxsize
    /\ threads[1].key \in CacheKeys(cache)

----------------------------------------------------------------------------
(* C19 *)

\* C19: no caller holds the lock of the cache or the lock of the log sink
\* while its store round trip is in progress, so a lookup inside the store
\* I/O keeps no other lookup from its cache check or from its log line.
C19_NoLockDuringRoundTrip ==
    \A p \in Threads :
        InBody(p) => cacheLock # p /\ sinkLock # p

\* C19 witness: while one lookup is inside its store round trip, the other
\* is inside the cache's critical section, or inside the log handler.
C19_Witness ==
    \E p, q \in Threads :
        /\ threads[p].pc = "execute"
        /\ threads[q].serial > threads[p].serial
        /\ \/ cacheLock = q /\ threads[q].pc = "check"
           \/ sinkLock = q /\ threads[q].pc = "emit"

----------------------------------------------------------------------------
(* C20 *)

\* C20: after startup no call of a lookup, of _execute_query or of
\* log_udf_call changes VALID_FIELDS or CONFIG: the whitelist a lookup
\* checks against is the one load_config built.
C20_GlobalsFrozen ==
    [][CallStep => /\ VALID_FIELDS' = VALID_FIELDS
                   /\ CONFIG' = CONFIG]_vars

\* C20 witness: two lookups have run, the second accepted its field, and
\* the whitelist is still the set load_config read from a table that
\* declares three columns.
C20_Witness ==
    /\ calls = 2
    /\ last.op \in LookupOps /\ last.keys # <<>>
    /\ VALID_FIELDS = {"accord_code", "date", "mcap"}
    /\ VALID_FIELDS = schema
    /\ CONFIG = DefaultConfig

====
